---- MODULE Spec2Model ----
(***************************************************************************)
(* A model of notebooks/bid-model-tutorial_step-4.ipynb: the notebook's    *)
(* code cells, executed in order by one Jupyter kernel, together with the  *)
(* local disk, the S3 bucket and the SageMaker jobs and endpoints they     *)
(* act on.  Code cells are named by their position in the notebook's       *)
(* "cells" array (cell 4 is the resampling cell, cell 13 the polling       *)
(* loop, cell 44 the cell that writes data/prod_model.json).               *)
(*                                                                         *)
(* Kernel semantics: an exception aborts the cell that raised it; the      *)
(* assignments made before the raising statement stay in the namespace.    *)
(* The operator then either stops the workflow or goes on to the next      *)
(* cell.                                                                   *)
(***************************************************************************)
EXTENDS Integers, Sequences, FiniteSets, TLC

(***************************************************************************)
(* Bounds of the model.                                                    *)
(***************************************************************************)
\* loaded frames of 1..SmallRows rows occur with every number of positive rows
SmallRows == 2
\* loaded frames of UpsampleFactor+1 .. MaxRows rows occur with one positive row
MaxRows == 22
\* frames of at most ExhaustiveRows rows are resampled and split in every
\* possible way
ExhaustiveRows == 6
\* larger frames are resampled and split as the state of the random
\* generator decides; a run starts in one of MaxSeed generator states
MaxSeed == 2
\* remote calls that fail during one run
MaxRemoteFaults == 1
\* the poll counter saturates at MaxPolls
MaxPolls == 2
\* the files resampled on their own have 1..MaxResampleRows rows
MaxResampleRows == 46
\* longest field name, in letters, and most feature columns, of the frames
\* whose weights are grouped on their own
MaxFieldLen == 2
MaxCols == 2

(***************************************************************************)
(* Program constants.                                                      *)
(***************************************************************************)
\* sample_rate = len(sampled_data) * 20.0 / (len(df) - len(sampled_data))
UpsampleFactor == 20
\* time.sleep(60)
PollInterval == 60
\* sample(frac=.9), sample(frac=.7), sample(frac=.66), as num/den
TwoWayTrainFrac == <<9, 10>>
ThreeWayTrainFrac == <<7, 10>>
ThreeWayValidationFrac == <<66, 100>>

(***************************************************************************)
(* Small helpers.                                                          *)
(***************************************************************************)
Min(a, b) == IF a <= b THEN a ELSE b

Range(s) == {s[i] : i \in 1..Len(s)}

\* the elements of a finite set of integers, ascending
RECURSIVE SortedSeq(_)
SortedSeq(S) ==
  IF S = {} THEN << >>
  ELSE LET m == CHOOSE x \in S : \A y \in S : x <= y
       IN <<m>> \o SortedSeq(S \ {m})

\* Python 2 round() of the non-negative rational num/den, den > 0:
\* to the nearest integer, halves away from zero.
Round(num, den) == (2 * num + den) \div (2 * den)

(***************************************************************************)
(* Column names.  A name is a sequence of symbols; the one-hot separator   *)
(* '-' is a symbol of its own, and the other symbols stand for the runs of *)
(* characters between the places where the names used here differ.         *)
(***************************************************************************)
Dash == "-"
conversion_rate == <<"conversion_rate">>

\* str.startswith(prefix)
StartsWith(name, prefix) ==
  /\ Len(prefix) <= Len(name)
  /\ SubSeq(name, 1, Len(prefix)) = prefix

\* name.split('-')[0]: the part before the first '-', the whole name without one
SplitFirst(name) ==
  IF \E i \in 1..Len(name) : name[i] = Dash
  THEN LET i == CHOOSE j \in 1..Len(name) :
                  name[j] = Dash /\ \A k \in 1..(j - 1) : name[k] # Dash
       IN SubSeq(name, 1, i - 1)
  ELSE name

\* [col for col in cols if not col.startswith(prefix)]
RECURSIVE DropPrefix(_, _)
DropPrefix(cols, prefix) ==
  IF cols = << >> THEN << >>
  ELSE (IF StartsWith(Head(cols), prefix) THEN << >> ELSE <<Head(cols)>>)
       \o DropPrefix(Tail(cols), prefix)

\* the columns left by frame.drop([name], axis=1)
Without(cols, name) == SelectSeq(cols, LAMBDA c : c # name)

\* list.remove(x): the list without its first occurrence of x
RECURSIVE RemoveFirst(_, _)
RemoveFirst(cols, x) ==
  IF cols = << >> THEN << >>
  ELSE IF Head(cols) = x THEN Tail(cols)
  ELSE <<Head(cols)>> \o RemoveFirst(Tail(cols), x)

(***************************************************************************)
(* Frames.  A frame has index labels, each carrying the row of the pickle  *)
(* file it was loaded from, and a list of column names.                    *)
(*   src   the pickle file the rows come from                              *)
(*   rows  index label -> row number in that file                          *)
(*   pos   the rows of the file with conversion_rate > 0                   *)
(*   cols  the column names, in order                                      *)
(***************************************************************************)
ModelPkl == <<".", "data", "step2-model.pkl">>
TestPkl == <<".", "data", "step2-test.pkl">>

EmptyRows == [i \in {} |-> 0]
NoFrame == [src |-> << >>, rows |-> EmptyRows, pos |-> {}, cols |-> << >>]

Index(f) == DOMAIN f.rows
NumRows(f) == Cardinality(Index(f))
\* the index labels of the rows with conversion_rate > 0
PositiveIndex(f) == {i \in Index(f) : f.rows[i] \in f.pos}
\* the rows of the source file that occur in the frame
OrigRows(f) == {f.rows[i] : i \in Index(f)}

\* frame.loc[labels], frame.drop(labels): the rows with / without the labels
Take(f, labels) == [f EXCEPT !.rows = [i \in Index(f) \cap labels |-> f.rows[i]]]
Drop(f, labels) == [f EXCEPT !.rows = [i \in Index(f) \ labels |-> f.rows[i]]]
\* frame[cols]
Select(f, cols) == [f EXCEPT !.cols = cols]

(***************************************************************************)
(* DataFrame.sample(frac=num/den): n = int(round(frac * len)) rows drawn   *)
(* without replacement (replace=False is the default) by numpy's global    *)
(* generator, whose state g decides the draw and moves on with every call. *)
(* Draws(labels, n, all, g) is the set of outcomes of the draw: every      *)
(* n-element subset when all outcomes are explored, and else the one that  *)
(* the generator state g stands for.                                       *)
(***************************************************************************)
Window(labels, n, seed) ==
  LET s == SortedSeq(labels)
      m == Len(s)
  IN {s[((seed + k) % m) + 1] : k \in 0..(n - 1)}

Draws(labels, n, all, g) ==
  IF n = 0 THEN {{}}
  ELSE IF all THEN {S \in SUBSET labels : Cardinality(S) = n}
  ELSE {Window(labels, n, g)}

Exhaustive(f) == NumRows(f) <= ExhaustiveRows

SampleSize(len, frac) == Round(frac[1] * len, frac[2])

(***************************************************************************)
(* Cell 4: the resampling.  The positive rows keep their index labels      *)
(* until the concat, whose ignore_index=True relabels the merged rows      *)
(* 0..M-1: first the positive rows, then the drawn rows (taken here in     *)
(* index order; the splits that follow do not depend on the order).        *)
(***************************************************************************)
\* sampled_data = df.loc[df['conversion_rate'] > 0]
Positives(f) == Take(f, PositiveIndex(f))

\* the size of a draw at the rate 20.0 * P / N, the positive rows as a share
\* of all rows and not of the other rows
ResampleSizeOfAll(N, P) == Round(UpsampleFactor * P * N, N)

\* df.sample(frac=sample_rate) takes int(round(sample_rate * len(df))) rows,
\* sample_rate = 20.0 * P / (N - P)
ResampleSize(N, P) == Round(UpsampleFactor * P * N, N - P)

\* pd.concat([a, b], axis=0, ignore_index=True)
Concat(a, b) ==
  LET sa == SortedSeq(Index(a))
      sb == SortedSeq(Index(b))
  IN [a EXCEPT !.rows = [i \in 0..(Len(sa) + Len(sb) - 1) |->
                           IF i < Len(sa) THEN a.rows[sa[i + 1]]
                           ELSE b.rows[sb[i - Len(sa) + 1]]]]

\* a draw that raises already at the rate 1
ResampleRaisesAtOne(f) ==
  LET N == NumRows(f)
      P == NumRows(Positives(f))
  IN \/ N = P
     \/ UpsampleFactor * P >= N - P

\* the outcomes of cell 4 that raise: ZeroDivisionError when every row is
\* positive, ValueError when the fraction asks for more rows than df has
ResampleRaises(f) ==
  LET N == NumRows(f)
      P == NumRows(Positives(f))
  IN \/ N = P
     \/ ResampleSize(N, P) > N

\* a resampling whose draw is made with replacement: every drawn row is
\* drawn a second time
ResampledWithReplacement(f, g) ==
  LET s == SortedSeq(Index(f))
      p == SortedSeq(PositiveIndex(f))
      k == ResampleSize(NumRows(f), Len(p))
  IN {[f EXCEPT !.rows = [i \in 0..(Len(p) + k - 1) |->
                            IF i < Len(p) THEN f.rows[p[i + 1]]
                            ELSE f.rows[s[((g + ((i - Len(p)) \div 2)) % Len(s)) + 1]]]]}

\* the resampled frames cell 4 can produce
Resampled(f, g) ==
  LET N == NumRows(f)
      P == NumRows(Positives(f))
  IN {Concat(Positives(f), Take(f, d)) :
        d \in Draws(Index(f), ResampleSize(N, P), Exhaustive(f), g)}

(***************************************************************************)
(* Cells 6, 26, 33, 39: the splits.                                        *)
(***************************************************************************)
\* train_data = f.sample(frac=.9); validation_data = f.drop(train_data.index)
TwoWaySplits(f, g) ==
  {[train |-> Take(f, t), validation |-> Drop(f, t)] :
     t \in Draws(Index(f), SampleSize(NumRows(f), TwoWayTrainFrac), Exhaustive(f), g)}

\* a three-way split whose validation rows are drawn from the whole frame
ThreeWaySplitsOfWhole(f, g) ==
  UNION {
    {[train |-> Take(f, t),
      validation |-> Take(f, v),
      test |-> Drop(Drop(f, t), v)] :
        v \in Draws(Index(f),
                    SampleSize(NumRows(Drop(f, t)), ThreeWayValidationFrac),
                    Exhaustive(f), g + 1)} :
    t \in Draws(Index(f), SampleSize(NumRows(f), ThreeWayTrainFrac), Exhaustive(f), g)}

\* train_data = f.sample(frac=.7)
\* validation_data = f.drop(train_data.index).sample(frac=.66)
\* test_data = f.drop(train_data.index).drop(validation_data.index)
ThreeWaySplits(f, g) ==
  UNION {
    {[train |-> Take(f, t),
      validation |-> Take(Drop(f, t), v),
      test |-> Drop(Drop(f, t), v)] :
        v \in Draws(Index(Drop(f, t)),
                    SampleSize(NumRows(Drop(f, t)), ThreeWayValidationFrac),
                    Exhaustive(f), g + 1)} :
    t \in Draws(Index(f), SampleSize(NumRows(f), ThreeWayTrainFrac), Exhaustive(f), g)}

(***************************************************************************)
(* S3 keys and prefixes are sequences of path segments; a key lies under a *)
(* prefix when the prefix is an initial part of it.                        *)
(***************************************************************************)
BasePrefix == <<"bid-models-test-data/canary/sagemaker">>
SampledPrefix == BasePrefix \o <<"sampled">>
SlimPrefix == BasePrefix \o <<"slim">>

\* os.path.join(prefix, '<dir>/train/train.csv') and its validation twin
TrainKey(dir) == BasePrefix \o <<dir, "train", "train.csv">>
ValidationKey(dir) == BasePrefix \o <<dir, "validation", "validation.csv">>
\* 'data/<dir>/train.csv', 'data/<dir>/validation.csv'
TrainFile(dir) == <<"data", dir, "train.csv">>
ValidationFile(dir) == <<"data", dir, "validation.csv">>
ProdModelFile == <<"data", "prod_model.json">>

\* 's3://{}/{}/train/'.format(bucket, prefix), 's3://{}/{}/validation/'
TrainChannel(pfx) == pfx \o <<"train">>
ValidationChannel(pfx) == pfx \o <<"validation">>
NoChannel == << >>

(***************************************************************************)
(* The state.                                                              *)
(*   ns         the kernel's namespace: variable name -> value             *)
(*   disk       the local files: path -> content                           *)
(*   s3         the objects of the bucket: key -> content                  *)
(*   jobs       the training jobs of the service: job name -> job          *)
(*   tuning     the tuning jobs of the service: job name -> job            *)
(*   endpoints  the names of the live inference endpoints                  *)
(*   pc         the code cell to run next (EndOfNotebook after the last)   *)
(*   line       the statement of cell 13 to run next ("" between cells)    *)
(*   stopped    the operator stopped the workflow after a fault            *)
(*   faults     the cells that raised                                      *)
(*   budget     the remote calls that may still fail                       *)
(*   slept      seconds slept since the last status query of the loop      *)
(*   polls      status queries made by the loop, saturating at MaxPolls    *)
(*              (both are measured while cell 13 runs, and 0 otherwise)    *)
(*   rng        the state of numpy's global random generator               *)
(***************************************************************************)
VARIABLES ns, disk, s3, jobs, tuning, endpoints,
          pc, line, stopped, faults, budget, slept, polls, rng

vars == <<ns, disk, s3, jobs, tuning, endpoints,
          pc, line, stopped, faults, budget, slept, polls, rng>>

Defined(name) == name \in DOMAIN ns

\* the namespace after the assignments of record b
Bind(n, b) ==
  [k \in DOMAIN n \cup DOMAIN b |-> IF k \in DOMAIN b THEN b[k] ELSE n[k]]

\* a mapping with key k set to v, and with key k removed
Put(f, k, v) == [x \in DOMAIN f \cup {k} |-> IF x = k THEN v ELSE f[x]]
Remove(f, k) == [x \in DOMAIN f \ {k} |-> f[x]]

EmptyMap == [x \in {} |-> 0]

(***************************************************************************)
(* The order of execution: the code cells, top to bottom.                  *)
(***************************************************************************)
CodeCells == <<1, 2, 4, 6, 7, 9, 12, 13, 15, 17, 20, 22, 24, 26, 28, 29,
               31, 33, 34, 35, 37, 39, 40, 41, 43, 44>>
EndOfNotebook == CodeCells[Len(CodeCells)] + 1

\* an order of execution that goes back from the plot of cell 24 to cell 22
NextCellWithLoop(c) ==
  IF c = 24 THEN 22
  ELSE LET i == CHOOSE j \in 1..Len(CodeCells) : CodeCells[j] = c
       IN IF i = Len(CodeCells) THEN EndOfNotebook ELSE CodeCells[i + 1]

NextCell(c) ==
  LET i == CHOOSE j \in 1..Len(CodeCells) : CodeCells[j] = c
  IN IF i = Len(CodeCells) THEN EndOfNotebook ELSE CodeCells[i + 1]

\* cell c has been run (to its end or to the statement that raised), or,
\* for the polling loop, is being run
Ran(c) == c < pc \/ (c = pc /\ (stopped \/ line # ""))
\* cell c ran to its end
Completed(c) == c < pc /\ c \notin faults

At(c) == pc = c /\ line = "" /\ ~stopped

\* the cell ends; the operator goes on to the next one
Finish(c) ==
  /\ pc' = NextCell(c)
  /\ line' = ""
  /\ UNCHANGED <<stopped, faults>>

\* the cell raises; the operator goes on to the next cell or stops
Raise(c) ==
  /\ faults' = faults \cup {c}
  /\ line' = ""
  /\ \E stop \in BOOLEAN :
       /\ stopped' = stop
       /\ pc' = IF stop THEN c ELSE NextCell(c)

(***************************************************************************)
(* Inputs: the two pickle files written by the Step 2 notebook.            *)
(***************************************************************************)
OneHot(field, value) == field \o <<Dash>> \o <<value>>

FeatureColumns ==
  << OneHot(<<"inventory", "_source">>, "a"),
     OneHot(<<"app", "_bundle">>, "x"),
     OneHot(<<"banner", "_height">>, "50"),
     <<"rewarded">> >>

ColumnLayouts == { <<conversion_rate>> \o FeatureColumns,
                   FeatureColumns \o <<conversion_rate>> }

File(src, n, pos, cols) ==
  [src |-> src, rows |-> [i \in 0..(n - 1) |-> i], pos |-> pos, cols |-> cols]

\* n rows, the first p of them positive
SmallFiles(cols) ==
  UNION {{File(ModelPkl, n, 0..(p - 1), cols) : p \in 0..n} : n \in 1..SmallRows}
LargeFiles(cols) ==
  {File(ModelPkl, n, {0}, cols) : n \in (UpsampleFactor + 1)..MaxRows}

\* the held-out file has the columns of the model file and rows of its own
TestFile(cols) == File(TestPkl, 2, {0}, cols)

PickleDisk(model) ==
  Put(Put(EmptyMap, ModelPkl, model), TestPkl, TestFile(model.cols))

\* the state of a fresh kernel over a disk holding the two pickle files
Fresh(d, b, g) ==
  /\ ns = EmptyMap
  /\ disk = d
  /\ s3 = EmptyMap
  /\ jobs = EmptyMap
  /\ tuning = EmptyMap
  /\ endpoints = {}
  /\ pc = CodeCells[1]
  /\ line = ""
  /\ stopped = FALSE
  /\ faults = {}
  /\ budget = b
  /\ slept = 0
  /\ polls = 0
  /\ rng = g

\* the generator states a run over the file starts in: one is enough when
\* every draw from the file's frames is explored
Seeds(model) == IF Exhaustive(model) THEN {0} ELSE 0..(MaxSeed - 1)

\* the small files have the label first; the large ones have either layout
ModelFiles ==
  SmallFiles(<<conversion_rate>> \o FeatureColumns)
    \cup UNION {LargeFiles(cols) : cols \in ColumnLayouts}

Init ==
  \E model \in ModelFiles :
    \E g \in Seeds(model) :
      Fresh(PickleDisk(model), MaxRemoteFaults, g)

(***************************************************************************)
(* Remote calls.                                                           *)
(***************************************************************************)
\* a remote call may fail while the budget lasts
MayFail == budget > 0

\* pd.concat([f['conversion_rate'], f.drop(['conversion_rate'], axis=1)],
\*           axis=1).to_csv(path, index=False, header=False)
\* the label first, then the other columns; no index, no header
CsvFieldsWithIndex(f) == << <<"index">> >> \o f.cols

CsvFields(f) == <<conversion_rate>> \o Without(f.cols, conversion_rate)
ToCsv(f) == [src |-> f.src, orig |-> OrigRows(f), fields |-> CsvFields(f)]

\* the objects under a channel's prefix
DataUnder(channel) ==
  {s3[k] : k \in {x \in DOMAIN s3 : StartsWith(x, channel)}}

NoJob == << >>
JobName(kind, c) == <<kind, c>>

\* the tuned hyperparameters of a tuning job's best training job, once it has one
NoBest == << >>
BestOf(name) == <<name, "TunedHyperParameters">>

\* sagemaker.estimator.Estimator(..., output_path='s3://{}/{}/output')
Estimator(pfx) == [output |-> pfx \o <<"output">>, hyper |-> EmptyMap, job |-> NoJob]

(***************************************************************************)
(* Cell 1: installs and imports.                                           *)
(***************************************************************************)
Cell1 ==
  /\ At(1)
  /\ Finish(1)
  /\ UNCHANGED <<ns, disk, s3, jobs, tuning, endpoints, budget, slept, polls, rng>>

(***************************************************************************)
(* Cell 2: df = pd.read_pickle("./data/step2-model.pkl")                   *)
(***************************************************************************)
Cell2 ==
  /\ At(2)
  /\ ns' = Bind(ns, [df |-> disk[ModelPkl]])
  /\ Finish(2)
  /\ UNCHANGED <<disk, s3, jobs, tuning, endpoints, budget, slept, polls, rng>>

(***************************************************************************)
(* Cell 4: the resampling.  sampled_data is first bound to the positive    *)
(* rows; the rate computation or the draw may raise after that.            *)
(***************************************************************************)
Cell4 ==
  /\ At(4)
  /\ IF ResampleRaises(ns.df)
     THEN /\ ns' = Bind(ns, [sampled_data |-> Positives(ns.df)])
          /\ rng' = rng
          /\ Raise(4)
     ELSE /\ \E r \in Resampled(ns.df, rng) : ns' = Bind(ns, [sampled_data |-> r])
          /\ rng' = rng + 1
          /\ Finish(4)
  /\ UNCHANGED <<disk, s3, jobs, tuning, endpoints, budget, slept, polls>>

(***************************************************************************)
(* The export that ends cells 6, 26, 33 and 39: two to_csv, bucket and     *)
(* prefix, two upload_file, two os.remove.  n is the namespace after the   *)
(* split.                                                                  *)
(***************************************************************************)
\* an export that removes the local files whether or not the uploads
\* returned
ExportRemovingAlways(c, dir, n) ==
  LET csvT == ToCsv(n.train_data)
      csvV == ToCsv(n.validation_data)
      written == Put(Put(disk, TrainFile(dir), csvT), ValidationFile(dir), csvV)
      removed == Remove(Remove(written, TrainFile(dir)), ValidationFile(dir))
  IN /\ ns' = Bind(n, [prefix |-> BasePrefix])
     /\ \E failing \in 0..(IF MayFail THEN 2 ELSE 0) :
          /\ s3' = IF failing = 1 THEN s3
                   ELSE IF failing = 2 THEN Put(s3, TrainKey(dir), csvT)
                   ELSE Put(Put(s3, TrainKey(dir), csvT), ValidationKey(dir), csvV)
          /\ disk' = removed
          /\ budget' = IF failing = 0 THEN budget ELSE budget - 1
          /\ IF failing = 0 THEN Finish(c) ELSE Raise(c)

Export(c, dir, n) ==
  LET csvT == ToCsv(n.train_data)
      csvV == ToCsv(n.validation_data)
      written == Put(Put(disk, TrainFile(dir), csvT), ValidationFile(dir), csvV)
      removed == Remove(Remove(written, TrainFile(dir)), ValidationFile(dir))
  IN /\ ns' = Bind(n, [prefix |-> BasePrefix])
     /\ \E failing \in 0..(IF MayFail THEN 2 ELSE 0) :
          \* failing = 1, 2: the first, the second upload_file raises
          /\ s3' = IF failing = 1 THEN s3
                   ELSE IF failing = 2 THEN Put(s3, TrainKey(dir), csvT)
                   ELSE Put(Put(s3, TrainKey(dir), csvT), ValidationKey(dir), csvV)
          /\ disk' = IF failing = 0 THEN removed ELSE written
          /\ budget' = IF failing = 0 THEN budget ELSE budget - 1
          /\ IF failing = 0 THEN Finish(c) ELSE Raise(c)

(***************************************************************************)
(* Cell 6: the two-way split of sampled_data and its export.               *)
(***************************************************************************)
Cell6 ==
  /\ At(6)
  /\ \E sp \in TwoWaySplits(ns.sampled_data, rng) :
       Export(6, "sampled",
              Bind(ns, [train_data |-> sp.train, validation_data |-> sp.validation]))
  /\ rng' = rng + 1
  /\ UNCHANGED <<jobs, tuning, endpoints, slept, polls>>

(***************************************************************************)
(* The training cells 7, 15, 28, 34, 40 and 43: a new Estimator, its       *)
(* hyperparameters, the input channels, job_name and ll.fit, which blocks  *)
(* until the job ends and raises unless it completed.                      *)
(*   pfx     the prefix the cell sets                                      *)
(*   kind    the job name without its timestamp                            *)
(*   tuned   the hyperparameters take **tuned_hyper_params                 *)
(*   dimvar  the frame whose columns give feature_dim                      *)
(*   setval  the cell binds s3_input_validation                            *)
(*   fitval  ll.fit is given the validation channel                        *)
(* int(time.time()) grows from one training cell to the next; the cell's   *)
(* number stands for it.                                                   *)
(***************************************************************************)
\* the statuses ll.fit can find the job to have ended with
FitStatuses(channel) ==
  IF DataUnder(channel) = {} THEN {"Failed"}
  ELSE IF MayFail THEN {"Completed", "Failed"}
  ELSE {"Completed"}

\* the namespace after the cell's assignments up to job_name
TrainBindings(n, c, pfx, kind, tuned, dimvar, setval) ==
  LET hyper == [feature_dim |-> Len(n[dimvar].cols) - 1,
                tuned |-> IF tuned THEN n.tuned_hyper_params ELSE NoBest]
      b == [prefix |-> pfx,
            ll |-> [Estimator(pfx) EXCEPT !.hyper = hyper],
            s3_input_train |-> TrainChannel(pfx),
            job_name |-> JobName(kind, c)]
  IN IF setval
     THEN Bind(Bind(n, b), [s3_input_validation |-> ValidationChannel(pfx)])
     ELSE Bind(n, b)

\* the job ll.fit creates
TrainingJob(n, status, fitval) ==
  [status |-> status,
   hyper |-> n.ll.hyper,
   output |-> n.ll.output,
   train |-> DataUnder(n.s3_input_train),
   validation |-> IF fitval THEN DataUnder(n.s3_input_validation) ELSE {}]

Fit(c, n, fitval, status) ==
  /\ jobs' = Put(jobs, n.job_name, TrainingJob(n, status, fitval))
  /\ ns' = Bind(n, [ll |-> [n.ll EXCEPT !.job = n.job_name]])
  /\ budget' = IF status = "Failed" /\ DataUnder(n.s3_input_train) # {}
               THEN budget - 1 ELSE budget

Train(c, pfx, kind, tuned, dimvar, setval, fitval) ==
  /\ At(c)
  /\ IF tuned /\ ~Defined("tuned_hyper_params")
     THEN \* NameError in the arguments of set_hyperparameters
          /\ ns' = Bind(ns, [prefix |-> pfx, ll |-> Estimator(pfx)])
          /\ Raise(c)
          /\ UNCHANGED <<jobs, budget>>
     ELSE LET n == TrainBindings(ns, c, pfx, kind, tuned, dimvar, setval)
          IN \E status \in FitStatuses(n.s3_input_train) :
               /\ Fit(c, n, fitval, status)
               /\ IF status = "Completed" THEN Finish(c) ELSE Raise(c)
  /\ UNCHANGED <<disk, s3, tuning, endpoints, slept, polls, rng>>

Cell7 == Train(7, SampledPrefix, "canary-cpi-model-sampled", FALSE, "sampled_data", TRUE, FALSE)

(***************************************************************************)
(* The evaluation cells 9, 17, 29, 35 and 41: ll.deploy, then one predict  *)
(* call per row of test_data, then the prediction and error columns.       *)
(* Cells 9 and 17 first load test_data from the held-out pickle file.      *)
(* The endpoint is named after the training job; ll.deploy raises unless   *)
(* that job completed, and the endpoint rejects a row whose number of      *)
(* features is not the model's feature_dim.                                *)
(***************************************************************************)
Scored(f) ==
  [f EXCEPT !.cols = Without(Without(f.cols, <<"prediction">>), <<"error">>)
                       \o << <<"prediction">>, <<"error">> >>]

DeployRaises(n) == n.ll.job = NoJob \/ jobs[n.ll.job].status # "Completed"

PredictRaises(n, endpoint) ==
  Len(Without(n.test_data.cols, conversion_rate)) # jobs[endpoint].hyper.feature_dim

\* an evaluation whose deploy replaces the endpoints that are live
EvaluateReplacing(c, n) ==
  /\ At(c)
  /\ IF DeployRaises(n)
     THEN /\ ns' = n
          /\ Raise(c)
          /\ UNCHANGED <<endpoints, budget>>
     ELSE \E failing \in 0..(IF MayFail THEN 2 ELSE 0) :
            LET deployed == Bind(n, [ll_predictor |-> n.ll.job])
                raises == failing # 0 \/ PredictRaises(n, n.ll.job)
            IN /\ endpoints' = IF failing = 1 THEN endpoints ELSE {n.ll.job}
               /\ ns' = IF failing = 1 THEN n
                        ELSE IF raises THEN deployed
                        ELSE Bind(deployed, [test_data |-> Scored(n.test_data)])
               /\ budget' = IF failing = 0 THEN budget ELSE budget - 1
               /\ IF raises THEN Raise(c) ELSE Finish(c)
  /\ UNCHANGED <<disk, s3, jobs, tuning, slept, polls, rng>>

Evaluate(c, n) ==
  /\ At(c)
  /\ IF DeployRaises(n)
     THEN /\ ns' = n
          /\ Raise(c)
          /\ UNCHANGED <<endpoints, budget>>
     ELSE \E failing \in 0..(IF MayFail THEN 2 ELSE 0) :
            \* failing = 1: ll.deploy raises; failing = 2: a predict call raises
            LET deployed == Bind(n, [ll_predictor |-> n.ll.job])
                raises == failing # 0 \/ PredictRaises(n, n.ll.job)
            IN /\ endpoints' = IF failing = 1 THEN endpoints
                               ELSE endpoints \cup {n.ll.job}
               /\ ns' = IF failing = 1 THEN n
                        ELSE IF raises THEN deployed
                        ELSE Bind(deployed, [test_data |-> Scored(n.test_data)])
               /\ budget' = IF failing = 0 THEN budget ELSE budget - 1
               /\ IF raises THEN Raise(c) ELSE Finish(c)
  /\ UNCHANGED <<disk, s3, jobs, tuning, slept, polls, rng>>

\* test_data = pd.read_pickle('./data/step2-test.pkl')
LoadTest(n) == Bind(n, [test_data |-> disk[TestPkl]])

Cell9 == Evaluate(9, LoadTest(ns))

(***************************************************************************)
(* Cell 12: the tuner over the estimator of cell 7 and tuner.fit, which    *)
(* creates the tuning job and returns without waiting for it.              *)
(***************************************************************************)
NewTuningJob == [status |-> "InProgress", best |-> NoBest]

Cell12 ==
  /\ At(12)
  /\ ns' = Bind(ns, [job_name |-> JobName("canary-cpi-tuner", 12)])
  /\ \E fails \in {FALSE, MayFail} :
       /\ tuning' = IF fails THEN tuning
                    ELSE Put(tuning, JobName("canary-cpi-tuner", 12), NewTuningJob)
       /\ budget' = IF fails THEN budget - 1 ELSE budget
       /\ IF fails THEN Raise(12) ELSE Finish(12)
  /\ UNCHANGED <<disk, s3, jobs, endpoints, slept, polls, rng>>

(***************************************************************************)
(* The tuning job runs in the service, whatever the notebook does: while   *)
(* in progress it finds better training jobs, then completes (with a best  *)
(* training job), fails, or is stopped.  No cell after the polling loop    *)
(* queries the job, so its progress is followed up to the end of cell 13.  *)
(***************************************************************************)
TuningProgress ==
  /\ pc <= 13
  /\ \E name \in DOMAIN tuning :
       \/ /\ tuning[name].status = "InProgress"
          /\ tuning[name].best = NoBest
          /\ tuning' = [tuning EXCEPT ![name].best = BestOf(name)]
       \/ /\ tuning[name].status = "InProgress"
          /\ tuning[name].best # NoBest
          /\ tuning' = [tuning EXCEPT ![name].status = "Completed"]
       \/ /\ tuning[name].status = "InProgress"
          /\ tuning' = [tuning EXCEPT ![name].status = "Failed"]
       \/ /\ tuning[name].status = "InProgress"
          /\ tuning' = [tuning EXCEPT ![name].status = "Stopping"]
       \/ /\ tuning[name].status = "Stopping"
          /\ tuning' = [tuning EXCEPT ![name].status = "Stopped"]
  /\ UNCHANGED <<ns, disk, s3, jobs, endpoints, pc, line, stopped, faults,
                 budget, slept, polls, rng>>

(***************************************************************************)
(* Cell 13: the polling loop, statement by statement.                      *)
(*   ""          tuning_job_result = describe(...)      (before the loop)  *)
(*   "while"     while status != 'Completed':                              *)
(*   "sleep"         time.sleep(60)                                        *)
(*   "describe"      tuning_job_result = describe(...)                     *)
(*   "read"      tuned_hyper_params = tuning_job_result[...][...]          *)
(***************************************************************************)
\* sage_client.describe_hyper_parameter_tuning_job(HyperParameterTuningJobName=name)
Describe(name) ==
  [HyperParameterTuningJobStatus |-> tuning[name].status,
   BestTrainingJob |-> tuning[name].best]

DescribeRaises(name) == name \notin DOMAIN tuning

\* a loop that waits only while the job is in progress
KeepsPollingInProgress(result) == result.HyperParameterTuningJobStatus = "InProgress"

\* a loop whose condition never turns false
KeepsPollingForever(result) == TRUE

\* the loop's condition
KeepsPolling(result) == result.HyperParameterTuningJobStatus # "Completed"

\* the status query at statement at, going on to statement to
Query(at, to) ==
  /\ pc = 13 /\ line = at /\ ~stopped
  /\ \E fails \in {DescribeRaises(ns.job_name), DescribeRaises(ns.job_name) \/ MayFail} :
       /\ ns' = IF fails THEN ns
                ELSE Bind(ns, [tuning_job_result |-> Describe(ns.job_name)])
       /\ budget' = IF fails /\ ~DescribeRaises(ns.job_name) THEN budget - 1 ELSE budget
       /\ slept' = 0
       /\ polls' = IF fails THEN 0 ELSE Min(polls + 1, MaxPolls)
       /\ IF fails THEN Raise(13)
          ELSE line' = to /\ UNCHANGED <<pc, stopped, faults>>
  /\ UNCHANGED <<disk, s3, jobs, tuning, endpoints, rng>>

Cell13First == Query("", "while")

Cell13While ==
  /\ pc = 13 /\ line = "while" /\ ~stopped
  /\ line' = IF KeepsPolling(ns.tuning_job_result) THEN "sleep" ELSE "read"
  /\ UNCHANGED <<ns, disk, s3, jobs, tuning, endpoints, pc, stopped, faults,
                 budget, slept, polls, rng>>

Cell13Sleep ==
  /\ pc = 13 /\ line = "sleep" /\ ~stopped
  /\ slept' = slept + PollInterval
  /\ line' = "describe"
  /\ UNCHANGED <<ns, disk, s3, jobs, tuning, endpoints, pc, stopped, faults,
                 budget, polls, rng>>

Cell13Describe == Query("describe", "while")

Cell13Read ==
  /\ pc = 13 /\ line = "read" /\ ~stopped
  /\ ns' = Bind(ns, [tuned_hyper_params |-> ns.tuning_job_result.BestTrainingJob])
  /\ Finish(13)
  /\ slept' = 0
  /\ polls' = 0
  /\ UNCHANGED <<disk, s3, jobs, tuning, endpoints, budget, rng>>

(***************************************************************************)
(* Cells 15 and 17: retrain with the tuned hyperparameters, re-evaluate.   *)
(***************************************************************************)
Cell15 == Train(15, SampledPrefix, "canary-cpi-model-sampled", TRUE, "sampled_data", FALSE, FALSE)

Cell17 == Evaluate(17, LoadTest(ns))

(***************************************************************************)
(* Cell 20: the model inspection.  Its first statement after the imports   *)
(* formats the key from prefix and jobname; no cell assigns jobname (the   *)
(* training cells assign job_name), so the statement raises NameError and  *)
(* nothing after it runs.                                                  *)
(***************************************************************************)
Cell20 ==
  /\ At(20)
  /\ ~Defined("jobname")
  /\ Raise(20)
  /\ UNCHANGED <<ns, disk, s3, jobs, tuning, endpoints, budget, slept, polls, rng>>

(***************************************************************************)
(* Cell 22: the weights grouped by top-level feature.  model_weights is a  *)
(* list of (feature, weights) rows, the weights in units of 0.001.  For    *)
(* each top-level feature the rows whose feature starts with it are        *)
(* selected and summarised (count, sum, min and max of the absolute        *)
(* weights; the median and the deviation are left out).                    *)
(***************************************************************************)
Abs(x) == IF x < 0 THEN 0 - x ELSE x

RECURSIVE SumAbs(_, _)
SumAbs(mw, rows) ==
  IF rows = {} THEN 0
  ELSE LET i == CHOOSE j \in rows : TRUE
       IN Abs(mw[i].weights) + SumAbs(mw, rows \ {i})

\* set([col.split('-')[0] for col in sampled_data.columns[1:]])
TopLevelFeatures(cols) == {SplitFirst(cols[i]) : i \in 2..Len(cols)}

\* model_weights.loc[model_weights['feature'].str.startswith(feature)]
GroupRows(mw, feature) == {i \in 1..Len(mw) : StartsWith(mw[i].feature, feature)}

GroupStats(mw, feature) ==
  LET rows == GroupRows(mw, feature)
  IN [rows |-> rows,
      count |-> Cardinality(rows),
      sum |-> SumAbs(mw, rows),
      min |-> IF rows = {} THEN 0
              ELSE CHOOSE w \in {Abs(mw[i].weights) : i \in rows} :
                     \A i \in rows : w <= Abs(mw[i].weights),
      max |-> IF rows = {} THEN 0
              ELSE CHOOSE w \in {Abs(mw[i].weights) : i \in rows} :
                     \A i \in rows : w >= Abs(mw[i].weights)]

Cell22 ==
  /\ At(22)
  /\ LET top == TopLevelFeatures(ns.sampled_data.cols)
     IN IF top # {} /\ ~Defined("model_weights")
        THEN \* NameError in the first pass of the loop
             /\ ns' = Bind(ns, [top_level_features |-> top,
                                top_level_weights |-> [f \in top |-> EmptyMap]])
             /\ Raise(22)
        ELSE /\ ns' = Bind(ns, [top_level_features |-> top,
                                top_level_weights |->
                                  [f \in top |-> GroupStats(ns.model_weights, f)]])
             /\ Finish(22)
  /\ UNCHANGED <<disk, s3, jobs, tuning, endpoints, budget, slept, polls, rng>>

(***************************************************************************)
(* Cells 24 and 31: top_level_weights sorted by a statistic and plotted;   *)
(* KeyError when cell 22 did not get to add the statistics.  Cell 37: the  *)
(* histogram of model_weights.  The order of the table is not modelled.    *)
(***************************************************************************)
HasStatistics(table) == \A f \in DOMAIN table : DOMAIN table[f] # {}

SortAndPlot(c) ==
  /\ At(c)
  /\ IF HasStatistics(ns.top_level_weights) THEN Finish(c) ELSE Raise(c)
  /\ UNCHANGED <<ns, disk, s3, jobs, tuning, endpoints, budget, slept, polls, rng>>

Cell24 == SortAndPlot(24)
Cell31 == SortAndPlot(31)

Cell37 ==
  /\ At(37)
  /\ IF Defined("model_weights") THEN Finish(37) ELSE Raise(37)
  /\ UNCHANGED <<ns, disk, s3, jobs, tuning, endpoints, budget, slept, polls, rng>>

(***************************************************************************)
(* Cells 26, 33 and 39: a feature-reduced model_df, its three-way split    *)
(* and the export of train and validation under 'slim'.                    *)
(***************************************************************************)
RECURSIVE DropPrefixes(_, _)
DropPrefixes(cols, prefixes) ==
  IF prefixes = << >> THEN cols
  ELSE DropPrefixes(DropPrefix(cols, Head(prefixes)), Tail(prefixes))

SplitAndExport(c, mdf) ==
  /\ \E sp \in ThreeWaySplits(mdf, rng) :
       Export(c, "slim",
              Bind(ns, [model_df |-> mdf, train_data |-> sp.train,
                        validation_data |-> sp.validation, test_data |-> sp.test]))
  /\ rng' = rng + 2

Cell26Prefixes ==
  << <<"inventory", "_source">>, <<"app", "_bundle">>,
     <<"platform", "_device", "_make">> >>

Cell26 ==
  /\ At(26)
  /\ SplitAndExport(26, Select(ns.sampled_data,
                               DropPrefixes(ns.sampled_data.cols, Cell26Prefixes)))
  /\ UNCHANGED <<jobs, tuning, endpoints, slept, polls>>

Cell33Prefixes ==
  << <<"inventory", "_interstitial">>, <<"banner", "_height">>,
     <<"placement", "_type">>, <<"platform", "_bandwidth">>,
     <<"banner", "_width">> >>

Cell33 ==
  /\ At(33)
  /\ SplitAndExport(33, Select(ns.sampled_data,
                               DropPrefixes(ns.sampled_data.cols, Cell33Prefixes)))
  /\ UNCHANGED <<jobs, tuning, endpoints, slept, polls>>

\* feat_to_keep = model_weights.loc[model_weights['weights'].abs() > 0.001]
\* model_df = sampled_data[[col for col in feat_to_keep['feature']]]
\* model_df['conversion_rate'] = sampled_data['conversion_rate']
FeatToKeep(mw) == SelectSeq(mw, LAMBDA r : Abs(r.weights) > 1)

\* a selection that appends the label column without looking for it among
\* the kept features
KeptColumnsAppending(mw) ==
  [i \in 1..Len(FeatToKeep(mw)) |-> FeatToKeep(mw)[i].feature] \o <<conversion_rate>>

KeptColumns(mw) ==
  LET kept == [i \in 1..Len(FeatToKeep(mw)) |-> FeatToKeep(mw)[i].feature]
  IN IF conversion_rate \in Range(kept) THEN kept ELSE kept \o <<conversion_rate>>

Cell39 ==
  /\ At(39)
  /\ IF Defined("model_weights")
     THEN SplitAndExport(39, Select(ns.sampled_data, KeptColumns(ns.model_weights)))
     ELSE \* NameError in the cell's first statement
          /\ Raise(39)
          /\ UNCHANGED <<ns, disk, s3, budget, rng>>
  /\ UNCHANGED <<jobs, tuning, endpoints, slept, polls>>

(***************************************************************************)
(* Cells 28, 34, 40: train on the slim data; cells 29, 35, 41: evaluate on *)
(* the test_data of the last split.                                        *)
(***************************************************************************)
Cell28 == Train(28, SlimPrefix, "canary-cpi-model-slim", FALSE, "train_data", TRUE, TRUE)
Cell34 == Train(34, SlimPrefix, "canary-cpi-model-slim", FALSE, "train_data", TRUE, TRUE)
Cell40 == Train(40, SlimPrefix, "canary-canary-model-slim", FALSE, "train_data", TRUE, TRUE)

Cell29 == Evaluate(29, ns)
Cell35 == Evaluate(35, ns)
Cell41 == Evaluate(41, ns)

(***************************************************************************)
(* Cell 43: the post-tuning model trained once more on the sampled data    *)
(* and deployed, in one cell.                                              *)
(***************************************************************************)
Cell43 ==
  /\ At(43)
  /\ IF ~Defined("tuned_hyper_params")
     THEN /\ ns' = Bind(ns, [prefix |-> SampledPrefix, ll |-> Estimator(SampledPrefix)])
          /\ Raise(43)
          /\ UNCHANGED <<jobs, endpoints, budget>>
     ELSE LET n == TrainBindings(ns, 43, SampledPrefix, "canary-cpi-model-sampled",
                                 TRUE, "sampled_data", FALSE)
              fitted == Bind(n, [ll |-> [n.ll EXCEPT !.job = n.job_name]])
              hasData == DataUnder(n.s3_input_train) # {}
          IN \E status \in FitStatuses(n.s3_input_train) :
               \E deployFails \in {FALSE, status = "Completed" /\ MayFail} :
                 LET deployed == status = "Completed" /\ ~deployFails
                 IN /\ jobs' = Put(jobs, n.job_name, TrainingJob(n, status, FALSE))
                    /\ budget' = IF deployFails \/ (status = "Failed" /\ hasData)
                                 THEN budget - 1 ELSE budget
                    /\ endpoints' = IF deployed THEN endpoints \cup {n.job_name}
                                    ELSE endpoints
                    /\ ns' = IF deployed THEN Bind(fitted, [ll_predictor |-> n.job_name])
                             ELSE fitted
                    /\ IF deployed THEN Finish(43) ELSE Raise(43)
  /\ UNCHANGED <<disk, s3, tuning, slept, polls, rng>>

(***************************************************************************)
(* Cell 44: data/prod_model.json.                                          *)
(***************************************************************************)
\* a feature list that takes the label to be the first column
ModelFeaturesAfterFirst(cols) == Tail(cols)

\* features = list(sampled_data.columns); features.remove('conversion_rate')
ModelFeatures(cols) == RemoveFirst(cols, conversion_rate)

ProdModel(n) ==
  [features |-> ModelFeatures(n.sampled_data.cols), endpoint_name |-> n.job_name]

Cell44 ==
  /\ At(44)
  /\ ns' = Bind(ns, [features |-> ModelFeatures(ns.sampled_data.cols),
                     prod_model |-> ProdModel(ns)])
  /\ disk' = Put(disk, ProdModelFile, ProdModel(ns))
  /\ Finish(44)
  /\ UNCHANGED <<s3, jobs, tuning, endpoints, budget, slept, polls, rng>>

(***************************************************************************)
(* The notebook run in order.                                              *)
(***************************************************************************)
Poll == Cell13First \/ Cell13While \/ Cell13Sleep \/ Cell13Describe \/ Cell13Read

Next ==
  \/ Cell1 \/ Cell2 \/ Cell4 \/ Cell6 \/ Cell7 \/ Cell9 \/ Cell12
  \/ Cell13First \/ Cell13While \/ Cell13Sleep \/ Cell13Describe \/ Cell13Read
  \/ Cell15 \/ Cell17 \/ Cell20 \/ Cell22 \/ Cell24 \/ Cell26 \/ Cell28
  \/ Cell29 \/ Cell31 \/ Cell33 \/ Cell34 \/ Cell35 \/ Cell37 \/ Cell39
  \/ Cell40 \/ Cell41 \/ Cell43 \/ Cell44
  \/ TuningProgress

Spec == Init /\ [][Next]_vars

\* The kernel runs the statements of a cell one after the other until the
\* cell ends or raises: no statement of the polling loop waits forever to
\* be run.  When (and whether) the operator runs the next cell is not so
\* constrained.
FairSpec == Spec /\ WF_vars(Poll)

(***************************************************************************)
(* The polling loop (cell 13).                                             *)
(***************************************************************************)
\* the kernel is inside cell 13, past its first status query
InLoop == pc = 13 /\ line # "" /\ ~stopped

LastStatus == ns.tuning_job_result.HyperParameterTuningJobStatus

\* the training jobs whose hyperparameters took **tuned_hyper_params
TunedJobs == {j \in DOMAIN jobs : jobs[j].hyper.tuned # NoBest}

\* C1: the polling loop is left for the read of tuned_hyper_params only
\* when the last status response says 'Completed'; tuned_hyper_params is the
\* best training job's hyperparameters of that 'Completed' response, and
\* every training job that takes the tuned hyperparameters takes those.
C1_ReadOnlyWhenCompleted ==
  /\ (pc = 13 /\ line = "read") => LastStatus = "Completed"
  /\ Completed(13) => LastStatus = "Completed"
  /\ Defined("tuned_hyper_params") =>
       /\ LastStatus = "Completed"
       /\ ns.tuned_hyper_params = ns.tuning_job_result.BestTrainingJob
       /\ ns.tuned_hyper_params = BestOf(JobName("canary-cpi-tuner", 12))
  /\ \A j \in TunedJobs :
       /\ Defined("tuned_hyper_params")
       /\ jobs[j].hyper.tuned = ns.tuned_hyper_params

\* the loop was left after waiting, and a later training job used the result
C1_Witness ==
  /\ Completed(13)
  /\ JobName("canary-cpi-model-sampled", 15) \in TunedJobs
  /\ jobs[JobName("canary-cpi-model-sampled", 15)].status = "Completed"

\* the tuning job the loop watches has ended without completing
WatchedJobEnded ==
  /\ InLoop
  /\ ns.job_name \in DOMAIN tuning
  /\ tuning[ns.job_name].status \in {"Failed", "Stopped"}

\* C2: when the tuning job the polling loop waits on ends 'Failed' or
\* 'Stopped', the loop eventually ends with a fault (cell 13 raises) rather
\* than waiting on.
C2_FailureEndsTheWait == WatchedJobEnded ~> (13 \in faults)

\* a training job that ended 'Failed' made its cell raise
C2_Witness ==
  \E j \in DOMAIN jobs : jobs[j].status = "Failed" /\ j[2] \in faults

\* C3: once the tuning job is 'Completed' the polling loop ends; a status
\* query inside the loop is made after exactly one sleep of PollInterval
\* seconds since the query before it; and the loop goes on to sleep
\* whenever the status it holds is not 'Completed', however many queries it
\* has made.
C3_LoopTerminates ==
  /\ (InLoop /\ ns.job_name \in DOMAIN tuning
        /\ tuning[ns.job_name].status = "Completed") ~> ~InLoop
  /\ [](pc = 13 /\ line = "describe" => slept = PollInterval)
  /\ [](pc = 13 /\ line \in {"while", "sleep", "read"} => slept = 0)
  /\ [][(pc = 13 /\ line = "while" /\ line' # "while")
          => line' = (IF LastStatus = "Completed" THEN "read" ELSE "sleep")]_vars
  /\ [][(pc = 13 /\ line = "describe" /\ line' = "while")
          => polls' = Min(polls + 1, MaxPolls)]_vars

\* the loop has queried the status MaxPolls times or more and waits again
C3_Witness == pc = 13 /\ line = "describe" /\ polls = MaxPolls /\ slept = PollInterval

(***************************************************************************)
(* The splits on their own: cells 6 and 26 run on every frame of at most   *)
(* ExhaustiveRows rows, whatever its index labels, with every outcome of   *)
(* every draw.  Of the state before them the two cells read sampled_data   *)
(* only (such frames are what cell 4 leaves when it raises on a file whose *)
(* rows are all positive: sampled_data is then df itself).                 *)
(***************************************************************************)
SplitFrames ==
  {Take(File(ModelPkl, ExhaustiveRows, 0..(ExhaustiveRows - 1),
             <<conversion_rate>> \o FeatureColumns), S) :
     S \in SUBSET (0..(ExhaustiveRows - 1))}

SplitInit ==
  \E f \in SplitFrames :
    \E c \in {6, 26} :
      /\ ns = [df |-> f, sampled_data |-> f]
      /\ disk = PickleDisk(f)
      /\ s3 = EmptyMap
      /\ jobs = EmptyMap
      /\ tuning = EmptyMap
      /\ endpoints = {}
      /\ pc = c
      /\ line = ""
      /\ stopped = FALSE
      /\ faults = {4}
      /\ budget = 0
      /\ slept = 0
      /\ polls = 0
      /\ rng = 0

SplitNext == Cell6 \/ Cell26

SplitSpec == SplitInit /\ [][SplitNext]_vars

PairwiseDisjoint(A, B, C) == A \cap B = {} /\ A \cap C = {} /\ B \cap C = {}

\* C4: after the two-way split (cell 6) train and validation have no index
\* label in common and together have exactly the labels of sampled_data,
\* train having round(0.9 * len) of them; after a three-way split (cells 26,
\* 33, 39) train, validation and test are pairwise disjoint and together
\* have exactly the labels of the frame that was split, train having
\* round(0.7 * len) of them and validation round(0.66 * rest) (rounding to
\* the nearest integer, a half upwards).
C4_SplitsPartition ==
  /\ (pc = NextCell(6) /\ 6 \notin faults) =>
       LET whole == Index(ns.sampled_data)
           T == Index(ns.train_data)
           V == Index(ns.validation_data)
       IN /\ T \cap V = {}
          /\ T \cup V = whole
          /\ 10 * Cardinality(T) - 9 * Cardinality(whole) \in -4..5
  /\ \A c \in {26, 33, 39} :
       (pc = NextCell(c) /\ c \notin faults) =>
         LET whole == Index(ns.model_df)
             T == Index(ns.train_data)
             V == Index(ns.validation_data)
             E == Index(ns.test_data)
             rest == Cardinality(whole) - Cardinality(T)
         IN /\ whole = Index(ns.sampled_data)
            /\ PairwiseDisjoint(T, V, E)
            /\ T \cup V \cup E = whole
            /\ 10 * Cardinality(T) - 7 * Cardinality(whole) \in -4..5
            /\ 100 * Cardinality(V) - 66 * rest \in -49..50

\* a three-way split of a frame of ExhaustiveRows rows into three non-empty parts
C4_Witness ==
  /\ pc = NextCell(26) /\ 26 \notin faults
  /\ NumRows(ns.model_df) = ExhaustiveRows
  /\ Index(ns.train_data) # {} /\ Index(ns.validation_data) # {} /\ Index(ns.test_data) # {}

(***************************************************************************)
(* The resampling (cell 4).                                                *)
(***************************************************************************)
\* cell 4 ran to its end on a file with some but not only positive rows
ResampledSome ==
  /\ Completed(4)
  /\ PositiveIndex(ns.df) # {}
  /\ PositiveIndex(ns.df) # Index(ns.df)

\* C5: after cell 4 has run to its end on a file with 0 < P < N positive
\* rows, at least 5% of the rows of sampled_data have conversion_rate > 0.
C5_AtLeastFivePercent ==
  ResampledSome =>
    20 * Cardinality(PositiveIndex(ns.sampled_data)) >= NumRows(ns.sampled_data)

\* a resampling whose draw took the positive row again
C5_Witness ==
  /\ ResampledSome
  /\ Cardinality(PositiveIndex(ns.sampled_data)) > Cardinality(PositiveIndex(ns.df))

(***************************************************************************)
(* The evaluations (cells 9, 17, 29, 35, 41).                              *)
(***************************************************************************)
EvalCells == {9, 17, 29, 35, 41}

\* cell c has just scored test_data on the endpoint ns.ll_predictor
JustEvaluated(c) == pc = NextCell(c) /\ c \notin faults

\* the rows of file src the model behind the endpoint was trained with
TrainedOn(endpoint, src) ==
  UNION {csv.orig : csv \in {x \in jobs[endpoint].train \cup jobs[endpoint].validation :
                                x.src = src}}

\* C6: when an evaluation cell has scored test_data, no row of the loaded
\* file that occurs in test_data occurs in the training or the validation
\* data of the training job behind the endpoint.
C6_TestRowsHeldOut ==
  \A c \in EvalCells :
    JustEvaluated(c) =>
      OrigRows(ns.test_data) \cap TrainedOn(ns.ll_predictor, ns.test_data.src) = {}

\* an evaluation of a slim model whose test rows were all held out
C6_Witness ==
  /\ JustEvaluated(29)
  /\ ns.test_data.src = ModelPkl
  /\ OrigRows(ns.test_data) # {}
  /\ OrigRows(ns.test_data) \cap TrainedOn(ns.ll_predictor, ModelPkl) = {}

\* C7: when an evaluation cell has scored test_data, test_data holds the
\* rows of the held-out file data/step2-test.pkl, which was not resampled.
C7_TestIsUnsampled ==
  \A c \in EvalCells :
    JustEvaluated(c) =>
      /\ ns.test_data.src = TestPkl
      /\ ns.test_data.rows = disk[TestPkl].rows

\* the first evaluation scored the held-out file
C7_Witness == JustEvaluated(9) /\ ns.test_data.src = TestPkl

(***************************************************************************)
(* The descriptor (cells 43 and 44).                                       *)
(***************************************************************************)
LastJob == JobName("canary-cpi-model-sampled", 43)

\* C8: when cells 43 and 44 have run to their end, data/prod_model.json
\* lists the columns of sampled_data other than conversion_rate, in column
\* order, as many as the feature_dim of the training job of cell 43; its
\* endpoint_name is the name of that job, which is the latest training job,
\* completed, took the tuned hyperparameters, reads the 'sampled' data and
\* has a live endpoint; it is not the name of a tuning job.
C8_ProdModelDescribesLastModel ==
  (Completed(43) /\ Completed(44)) =>
    LET pm == disk[ProdModelFile]
    IN /\ pm.features = Without(ns.sampled_data.cols, conversion_rate)
       /\ Len(pm.features) = jobs[LastJob].hyper.feature_dim
       /\ pm.endpoint_name = LastJob
       /\ \A j \in DOMAIN jobs : j[2] <= LastJob[2]
       /\ jobs[LastJob].status = "Completed"
       /\ jobs[LastJob].hyper.tuned = BestOf(JobName("canary-cpi-tuner", 12))
       /\ jobs[LastJob].output = SampledPrefix \o <<"output">>
       /\ LastJob \in endpoints
       /\ pm.endpoint_name \notin DOMAIN tuning

\* the notebook was run to its last cell, on a file whose label column is last
C8_Witness ==
  /\ Completed(43) /\ Completed(44)
  /\ pc = EndOfNotebook
  /\ ns.sampled_data.cols[1] # conversion_rate
  /\ DOMAIN jobs # {LastJob}

(***************************************************************************)
(* The stages of the specification, by what each code cell does.           *)
(*   1 Dataset Loader  2 Resampler  3 Splitter  4 Exporter                 *)
(*   5 Training Job Submitter  6 Hyperparameter Search Driver              *)
(*   7 Model Inspector  8 Evaluator                                        *)
(***************************************************************************)
Stages(c) ==
  CASE c = 2 -> {1}
    [] c = 4 -> {2}
    [] c \in {6, 26, 33, 39} -> {3, 4}
    [] c \in {7, 15, 28, 34, 40, 43} -> {5}
    [] c \in {12, 13} -> {6}
    [] c \in {20, 22, 24, 31, 37} -> {7}
    [] c \in {9, 17, 29, 35, 41} -> {8}
    [] OTHER -> {}

GroupFields == UNION {[1..k -> {"a", "b"}] : k \in 1..MaxFieldLen}

GroupValues == { <<"x">>, <<"x", Dash, "y">> }

GroupNames ==
  GroupFields \cup {field \o <<Dash>> \o value : field \in GroupFields, value \in GroupValues}

GroupColumns == UNION {[1..k -> GroupNames] : k \in 1..MaxCols}

GroupWeight(i) == IF i % 2 = 1 THEN 0 - i ELSE i

GroupInit ==
  \E cols \in GroupColumns :
      LET f == File(ModelPkl, 1, {0}, <<conversion_rate>> \o cols)
      IN /\ ns = [df |-> f, sampled_data |-> f,
                  model_weights |-> [i \in 1..Len(cols) |->
                                       [feature |-> cols[i], weights |-> GroupWeight(i)]]]
         /\ disk = PickleDisk(f)
         /\ s3 = EmptyMap
         /\ jobs = EmptyMap
         /\ tuning = EmptyMap
         /\ endpoints = {}
         /\ pc = 22
         /\ line = ""
         /\ stopped = FALSE
         /\ faults = {}
         /\ budget = 0
         /\ slept = 0
         /\ polls = 0
         /\ rng = 0

GroupNext == Cell22 \/ Cell24

GroupSpec == GroupInit /\ [][GroupNext]_vars

\* cell 22 has grouped the weights
Grouped == 22 < pc /\ 22 \notin faults /\ Defined("model_weights")

\* the rows of model_weights whose column has the field name
OwnRows(mw, field) == {i \in 1..Len(mw) : SplitFirst(mw[i].feature) = field}

ResampleFiles ==
  UNION {{File(ModelPkl, n, 0..(p - 1), <<conversion_rate>> \o FeatureColumns) :
            p \in 0..n} : n \in 1..MaxResampleRows}

ResampleInit ==
  \E model \in ResampleFiles :
    \E g \in Seeds(model) :
      Fresh(PickleDisk(model), 0, g)

ResampleNext == Cell1 \/ Cell2 \/ Cell4

ResampleSpec == ResampleInit /\ [][ResampleNext]_vars

\* N and P of the loaded file
LoadedRows == NumRows(ns.df)
LoadedPositives == Cardinality(PositiveIndex(ns.df))

\* the index labels sampled_data gives to the rows of the draw: those after
\* the labels of the positive rows
DrawnLabels == {i \in Index(ns.sampled_data) : i >= LoadedPositives}

\* C11 as stated: the draw is made with replacement, so that it can be
\* made at any computed rate, also one above 1, with rows drawn again: on
\* every file with 0 < P < N cell 4 runs to its end.
C11_DrawsAtAnyRate ==
  (Ran(4) /\ 0 < LoadedPositives /\ LoadedPositives < LoadedRows) => Completed(4)

\* C11, amended: the draw is made without replacement: when cell 4 has run
\* to its end, the drawn rows are round(rate * N) <= N different rows of
\* df, so that a row of df occurs in sampled_data at most twice, and twice
\* only if it is positive (once as a positive row, once as a drawn row).
C11_DrawWithoutReplacement ==
  Completed(4) =>
    /\ Cardinality(DrawnLabels) = ResampleSize(LoadedRows, LoadedPositives)
    /\ Cardinality(DrawnLabels) <= LoadedRows
    /\ \A i \in DrawnLabels : \A j \in DrawnLabels :
         i # j => ns.sampled_data.rows[i] # ns.sampled_data.rows[j]
    /\ \A i \in Index(ns.sampled_data) : \A j \in Index(ns.sampled_data) :
         (i < j /\ ns.sampled_data.rows[i] = ns.sampled_data.rows[j]) =>
           /\ i \notin DrawnLabels /\ j \in DrawnLabels
           /\ ns.sampled_data.rows[i] \in ns.df.pos

\* a draw of more than one row that took a positive row
C11_Witness ==
  /\ Completed(4)
  /\ Cardinality(DrawnLabels) > 1
  /\ \E i \in DrawnLabels : ns.sampled_data.rows[i] \in ns.df.pos

(***************************************************************************)
(* The datasets on their own: the resampling (cell 4), the two-way split   *)
(* (cell 6) and the three feature reductions (cells 26, 33, 39), with the  *)
(* label as first or as last column of the file and with every assignment  *)
(* of SlimWeights to the features of model_weights.                        *)
(***************************************************************************)
\* weights in units of 0.001, as compared with the threshold in FeatToKeep
SlimWeights == {-2, 0, 2}

SlimCells == {4, 6, 26, 33, 39}

SlimFile(c, cols) ==
  IF c = 4 THEN File(ModelPkl, UpsampleFactor + 1, {0}, cols)
  ELSE File(ModelPkl, SmallRows, {0}, cols)

SlimInit ==
  \E c \in SlimCells :
    \E cols \in ColumnLayouts :
      \E w \in [1..(Len(cols) - 1) -> SlimWeights] :
        LET f == SlimFile(c, cols)
        IN /\ ns = IF c = 4 THEN [df |-> f]
                   ELSE [df |-> f, sampled_data |-> f,
                         model_weights |-> [i \in 1..(Len(cols) - 1) |->
                                              [feature |-> cols[i + 1], weights |-> w[i]]]]
           /\ (c # 39) => \A i \in DOMAIN w : w[i] = 0
           /\ disk = PickleDisk(f)
           /\ s3 = EmptyMap
           /\ jobs = EmptyMap
           /\ tuning = EmptyMap
           /\ endpoints = {}
           /\ pc = c
           /\ line = ""
           /\ stopped = FALSE
           /\ faults = {}
           /\ budget = 0
           /\ slept = 0
           /\ polls = 0
           /\ rng = 0

SlimNext == Cell4 \/ Cell6 \/ Cell26 \/ Cell33 \/ Cell39

SlimSpec == SlimInit /\ [][SlimNext]_vars

\* the names the cells bind to datasets
Datasets == {"sampled_data", "model_df", "train_data", "validation_data", "test_data"}

\* how many columns of a frame are the label column
LabelColumns(f) == Cardinality({i \in 1..Len(f.cols) : f.cols[i] = conversion_rate})

\* C12: every dataset the cells bind (the resampled sampled_data, the
\* feature-reduced model_df of cells 26, 33 and 39, and the train,
\* validation and test subsets of every split) has exactly one
\* conversion_rate column.
C12_OneLabelColumn ==
  \A name \in Datasets : Defined(name) => LabelColumns(ns[name]) = 1

\* cell 39 has kept the label both as a feature with a weight above the
\* threshold (the label is the file's last column) and as the label
C12_Witness ==
  /\ Completed(39)
  /\ conversion_rate \in Range([i \in 1..Len(FeatToKeep(ns.model_weights)) |->
                                  FeatToKeep(ns.model_weights)[i].feature])
  /\ Len(ns.model_df.cols) > 1
  /\ LabelColumns(ns.test_data) = 1

(***************************************************************************)
(* The Model Inspector (cell 20).                                          *)
(***************************************************************************)
\* every code cell before c ran to its end
InOrderUpTo(c) == \A b \in Range(CodeCells) : b < c => Completed(b)

\* the names cell 20 reads before it assigns any
InspectorReads == {"prefix", "jobname", "bucket", "sampled_data"}

\* C13: in an in-order run in which every cell before it ran to its end,
\* the Model Inspector (cell 20) finds every variable it reads assigned,
\* builds the key from prefix and the name of the last completed training
\* job, and runs to its end, binding model_weights.
C13_InspectorCompletes ==
  (InOrderUpTo(20) /\ Ran(20)) =>
    /\ \A name \in InspectorReads : Defined(name)
    /\ Completed(20)
    /\ Defined("model_weights")

\* cell 20 has raised after the tuned model was trained and evaluated
\* without a fault; the training job's name is bound to job_name
C13_Witness ==
  /\ InOrderUpTo(20)
  /\ 20 \in faults
  /\ Defined("job_name") /\ ns.job_name \in DOMAIN jobs
  /\ jobs[ns.job_name].status = "Completed"
  /\ ~Defined("jobname")

\* C14 as stated: whenever the resampling succeeds on a file with
\* 0 < P < N, sampled_data has fewer rows than df.
C14_AlwaysSmaller ==
  (Completed(4) /\ 0 < LoadedPositives /\ LoadedPositives < LoadedRows) =>
    NumRows(ns.sampled_data) < LoadedRows

\* C14, amended: when the resampling succeeds, sampled_data has
\* P + round(N * 20P/(N-P)) rows, which is at most N + P; it is fewer than N
\* when N >= 23 * P, and it is N + P, more than N, when N = 21 * P (rate 1).
C14_SmallerWhenSparse ==
  Completed(4) =>
    /\ NumRows(ns.sampled_data) =
         LoadedPositives + Round(UpsampleFactor * LoadedPositives * LoadedRows,
                                 LoadedRows - LoadedPositives)
    /\ NumRows(ns.sampled_data) <= LoadedRows + LoadedPositives
    /\ LoadedRows >= (UpsampleFactor + 3) * LoadedPositives =>
         NumRows(ns.sampled_data) < LoadedRows
    /\ LoadedRows = (UpsampleFactor + 1) * LoadedPositives =>
         NumRows(ns.sampled_data) = LoadedRows + LoadedPositives

\* a resampling of a file with two positive rows that gave fewer rows
C14_Witness ==
  /\ Completed(4)
  /\ LoadedPositives > 1
  /\ NumRows(ns.sampled_data) < LoadedRows

(***************************************************************************)
(* The training jobs and the data they read.                               *)
(***************************************************************************)
\* the cells that export under the prefix a training cell reads
ExportCells(c) == IF c \in {7, 15, 43} THEN {6} ELSE {e \in {26, 33, 39} : e < c}

\* cell e split and wrote its CSV files (cell 39 does so only with
\* model_weights bound)
Split(e) == e < pc /\ (e = 39 => Defined("model_weights"))

\* the CSV objects job j was given
JobData(j) == jobs[j].train \cup jobs[j].validation

Matches(csv, dim) == csv.fields[1] = conversion_rate /\ Len(csv.fields) = dim + 1

FaultsWithoutRate ==
  /\ 4 \in faults <=> (\/ LoadedRows = LoadedPositives
                        \/ (UpsampleFactor + 1) * LoadedPositives > LoadedRows)
  /\ ns.df = disk[ModelPkl]

\* C16 as stated: cell 4 raises exactly when N = P or 21P > N, and then no
\* resampled dataset exists (sampled_data is not bound) and df is
\* unchanged.
C16_NothingProducedOnFault ==
  Ran(4) => /\ FaultsWithoutRate
            /\ 4 \in faults => ~Defined("sampled_data")

\* C16, amended: cell 4 raises exactly when N = P or 21P > N; df is then
\* unchanged and no row has been drawn, but sampled_data is bound, to the
\* positive rows of df alone.
C16_OnlyPositivesOnFault ==
  Ran(4) => /\ FaultsWithoutRate
            /\ 4 \in faults => /\ Defined("sampled_data")
                                /\ ns.sampled_data = Positives(ns.df)
                                /\ DrawnLabels = {}

\* cell 4 has raised on a file with both kinds of rows (21P > N), leaving
\* the positive rows in sampled_data
C16_Witness ==
  /\ 4 \in faults
  /\ 0 < LoadedPositives /\ LoadedPositives < LoadedRows
  /\ NumRows(ns.sampled_data) = LoadedPositives

(***************************************************************************)
(* The export steps and the local CSV files.                               *)
(***************************************************************************)
\* 'sampled' in cell 6, 'slim' in cells 26, 33 and 39
ExportDir(c) == IF c = 6 THEN "sampled" ELSE "slim"

LocalFiles(dir) == {TrainFile(dir), ValidationFile(dir)}

\* both objects of the directory are the CSV forms of the frames in n
Uploaded(store, dir, n) ==
  /\ TrainKey(dir) \in DOMAIN store /\ ValidationKey(dir) \in DOMAIN store
  /\ store[TrainKey(dir)] = ToCsv(n.train_data)
  /\ store[ValidationKey(dir)] = ToCsv(n.validation_data)

\* both local files of the directory are there, written from the frames in n
OnDisk(d, dir, n) ==
  /\ LocalFiles(dir) \subseteq DOMAIN d
  /\ d[TrainFile(dir)] = ToCsv(n.train_data)
  /\ d[ValidationFile(dir)] = ToCsv(n.validation_data)

\* C17: in every step of an export cell (6, 26, 33, 39) that gets to write
\* its files: if the cell runs to its end, both objects in the store are
\* the CSV forms of the new train and validation frames and neither local
\* file is left on disk; if an upload raises, both local files are left on
\* disk as written.  And in every step whatever, a local CSV file that
\* leaves the disk does so in an export cell that runs to its end, both
\* uploads done.
C17_RemovedOnlyAfterUploads ==
  [][/\ \A c \in {6, 26, 33, 39} :
          (At(c) /\ (c = 39 => Defined("model_weights"))) =>
            IF c \in faults'
            THEN OnDisk(disk', ExportDir(c), ns')
            ELSE /\ Uploaded(s3', ExportDir(c), ns')
                 /\ LocalFiles(ExportDir(c)) \cap DOMAIN disk' = {}
      /\ \A dir \in {"sampled", "slim"} :
          \A path \in LocalFiles(dir) :
            (path \in DOMAIN disk /\ path \notin DOMAIN disk') =>
              /\ pc \in {6, 26, 33, 39} /\ ExportDir(pc) = dir
              /\ pc \notin faults'
              /\ Uploaded(s3', dir, ns')]_vars

\* cell 6 ran to its end and left no local file; an upload of cell 26
\* raised and left both of its files on disk
C17_Witness ==
  /\ Completed(6)
  /\ LocalFiles("sampled") \cap DOMAIN disk = {}
  /\ {TrainKey("sampled"), ValidationKey("sampled")} \subseteq DOMAIN s3
  /\ 26 \in faults
  /\ LocalFiles("slim") \subseteq DOMAIN disk

(***************************************************************************)
(* The endpoints.                                                          *)
(***************************************************************************)
\* the cells that call ll.deploy
DeployCells == {9, 17, 29, 35, 41, 43}

\* the training cell whose estimator a deploy cell deploys
TrainedBy(c) == CASE c = 9 -> 7 [] c = 17 -> 15 [] c = 29 -> 28
                  [] c = 35 -> 34 [] c = 41 -> 40 [] c = 43 -> 43

\* every cell was run, in order, and no remote call failed
RanInOrder == pc = EndOfNotebook /\ budget = MaxRemoteFaults

\* C18: no step removes an endpoint; a step that changes the set of live
\* endpoints is a step of a deploy cell and adds exactly one, the endpoint
\* of the job that cell's estimator trained, to which ll_predictor then
\* refers; a deploy cell that ran to its end has its endpoint live; and
\* when every cell was run in order and no remote call failed, six
\* endpoints are live, one for each deploy cell, and ll_predictor refers
\* to the last one, that of cell 43.
C18_EndpointsOnlyGrow ==
  /\ [](/\ \A c \in DeployCells :
            Completed(c) => \E e \in endpoints : e[2] = TrainedBy(c)
        /\ RanInOrder =>
             /\ Cardinality(endpoints) = Cardinality(DeployCells)
             /\ \A c \in DeployCells : \E e \in endpoints : e[2] = TrainedBy(c)
             /\ ns.ll_predictor = LastJob
             /\ LastJob \in endpoints)
  /\ [][/\ endpoints \subseteq endpoints'
        /\ endpoints' # endpoints =>
             /\ pc \in DeployCells
             /\ \E e \in DOMAIN jobs' :
                  /\ e[2] = TrainedBy(pc)
                  /\ endpoints' = endpoints \cup {e}
                  /\ ns'.ll_predictor = e]_vars

\* the notebook was run to its end without a failing remote call, on a
\* file that was resampled, and six endpoints are live
C18_Witness ==
  /\ RanInOrder
  /\ Completed(4)
  /\ Cardinality(endpoints) = Cardinality(DeployCells)

====
